---- MODULE Spec2Model ----
(***************************************************************************)
(* Per-call conversation orchestrator of the voice agent with TTS          *)
(* (src/unnamed/part_007: Twilio media stream -> Deepgram STT -> GPT ->    *)
(* Deepgram TTS -> Twilio).  One media connection (one closure of          *)
(* wss.on("connection")) is modelled: its utterance buffer, safety timer,  *)
(* single-flight gate, conversation history and fact memory, and the       *)
(* asynchronous turn started by handleUserUtterance.                       *)
(*                                                                         *)
(* Caller text is a sequence of one-character strings; a reply is a        *)
(* sequence of tokens, where "[MEM:", "]", ",", "=" and " " are the        *)
(* characters the annotation parser looks at and every other token is a    *)
(* run of characters containing none of them.                              *)
(***************************************************************************)
EXTENDS Integers, Sequences, FiniteSets, TLC

VARIABLES
    env,                  \* input profile of the run: "varied" or "long"
    wsState,              \* the media WebSocket: "open", "stopped" (stop event seen) or "closed"
    utteranceEndQueued,   \* an UtteranceEnd message of the provider waits for its handler
    heard,                \* "interim-final" when the fragments since the last boundary
                          \* were interim ones and then one final one, "interim" when
                          \* they were interim ones only, "-" otherwise
    callSid,              \* let callSid = null
    streamSid,            \* let streamSid = null
    utteranceBuffer,      \* let utteranceBuffer = ""
    isProcessing,         \* let isProcessing = false
    isSpeaking,           \* let isSpeaking = false
    safetyTimer,          \* let safetyTimer = null (handle of the last setTimeout)
    timers,               \* handles of the timeouts that are armed and have not fired
    lastUserText,         \* let lastUserText = ""
    memory,               \* const memory = { name, intent, budget, location }
    conversationHistory,  \* const conversationHistory = []
    inflight,             \* calls of handleUserUtterance suspended at an await
    nTurns,               \* number of calls accepted so far (numbers the turns)
    callsSinceFinal,      \* calls of handleUserUtterance since the last final fragment
    evicted,              \* entries removed from the history by the step just taken
    done,                 \* the turn that reached its finally block in the step just taken
    last,                 \* the handler that ran in the step just taken, and its outcome
    framesIn,             \* number of media frames received from Twilio
    dgSent                \* the frames handed to dg.send, by their number of arrival

\* parseMemoryUpdate applied to replies of every shape (ParseSpec)
VARIABLES
    parseMemory,          \* the memory object handed to parseMemoryUpdate
    rawReply,             \* the reply parsed by the step just taken
    cleanReply            \* what parseMemoryUpdate returned for it

parseVars == <<parseMemory, rawReply, cleanReply>>

\* one connection of the agent that keeps its histories in a Map keyed by
\* callSid and plays its replies through the call-control API
\* (src/server.js:592-768) (MapSpec)
VARIABLES
    conn,                    \* the closure of wss.on("connection"): ws (state of the
                             \* media socket), callSid, isProcessing, silenceTimer,
                             \* deepgramWs (readyState of the provider socket)
    connTimers,              \* handles of the silence timeouts that are pending
    conversationHistoryMap,  \* const conversationHistory = new Map()
    suspended,               \* async callbacks of the connection suspended at an await
    crashed,                 \* an exception escaped a handler and ended the process
    released,                \* how often the history and the provider socket were released
    started,                 \* turns and check-ins started so far
    mapLast                  \* the handler that ran in the step just taken, and its outcome

mapVars ==
    <<conn, connTimers, conversationHistoryMap, suspended, crashed, released,
      started, mapLast>>

\* two calls served by the agent that keeps the call to answer in the global
\* CURRENT_CALL_SID (src/unnamed/part_000:514-728) (SharedSpec)
VARIABLES
    CURRENT_CALL_SID,        \* let CURRENT_CALL_SID = null
    streams,                 \* per call: the stage of its media stream and the closure
                             \* of its wss.on('connection'): hasReplied, dgReady,
                             \* queued (audioQueue, frames by their number of
                             \* arrival), sent (the frames handed to
                             \* dgConnection.send), flushed (how many of them the
                             \* Open handler sent), received (frames so far),
                             \* pc (position of its Transcript callback)
    playbackUpdates,         \* the calls made to twilioClient.calls(target).update
    sharedLast               \* the handler that ran in the step just taken

sharedVars == <<CURRENT_CALL_SID, streams, playbackUpdates, sharedLast>>

\* speak(text, ctx) of services/tts.service.js called with texts of every
\* shape (SpeakSpec)
VARIABLES
    speakText,               \* the text of the call of speak in progress
    speakPc,                 \* where that call is
    providerCalls,           \* the providers it has called, in order
    providerFailed,          \* the providers that threw
    speakOutcome,            \* what it returned or threw
    speakCount               \* calls of speak so far

speakVars ==
    <<speakText, speakPc, providerCalls, providerFailed, speakOutcome, speakCount>>

\* one connection of the agent that finds the end of speech by the energy of
\* the audio and transcribes the buffered audio with one request
\* (src/unnamed/part_003:216-366) (SpeechSpec)
VARIABLES
    speech,                  \* the closure of wss.on("connection"): ws (state of the
                             \* media socket), callSid, audioChunks, isSpeaking,
                             \* processing, history (conversationHistory), pc
                             \* (where processUserSpeech is), received (chunks so far)
    speechLog,               \* requests (the chunks of every call of deepgramSTT),
                             \* arrivedInFlight (chunks pushed while processing was
                             \* true), discarded (chunks dropped as too short)
    speechLast               \* the handler that ran in the step just taken

speechVars == <<speech, speechLog, speechLast>>

\* the variables of the other programs of the repository, which the session
\* of part_007 never touches
auxVars == <<parseVars, mapVars, sharedVars, speakVars, speechVars>>

sessionVars ==
    <<env, wsState, utteranceEndQueued, heard, callSid, streamSid, utteranceBuffer,
      isProcessing, isSpeaking, safetyTimer, timers, lastUserText, memory,
      conversationHistory, inflight, nTurns, callsSinceFinal, evicted, done, last,
      framesIn, dgSent>>

vars == <<sessionVars, auxVars>>

(***************************************************************************)
(* Program constants (src/unnamed/part_007:63-67, 193).                    *)
(***************************************************************************)
MIN_CHARS == 3
MAX_HISTORY == 10
FALLBACK == <<"Sorry, could you repeat that please?">>
MemoryKeys == {"name", "intent", "budget", "location"}
NULL == <<>>          \* null of a memory slot (a stored value is never empty)
NoSid == "null"       \* null of callSid and streamSid
NoTurn ==
    [turn |-> 0, text |-> <<>>, gptFailed |-> FALSE, reply |-> <<>>, merged |-> 0,
     delivered |-> 0]

(***************************************************************************)
(* Bounds of the exploration.                                              *)
(***************************************************************************)
MaxBuf == 6           \* characters the utterance buffer may hold
MaxTurnsVaried == 2   \* turns of a call whose inputs are varied
MaxTurnsLong == 7     \* turns of a call long enough to overflow the history
MaxTurnsHangup == 2   \* turns of a call that the caller hangs up
MaxTurnsMedia == 1    \* turns of a call whose media frames are followed
MaxFrames == 2        \* media frames followed in such a call
MaxPairs == 2         \* key=value pairs of one fact annotation
MaxTurnsMap == 2      \* turns of a call of the Map-keyed agent
MaxCheckins == 2      \* silence check-ins of such a call
MaxStreamFrames == 2  \* media frames of a call of the CURRENT_CALL_SID agent
MaxTextLen == 3       \* characters of a text handed to speak
MaxSpeakCalls == 3    \* calls of speak followed
MaxChunks == 5        \* runs of audio frames of a call of the audio-energy agent

(***************************************************************************)
(* Inputs.  A "varied" call hears fragments of different lengths and gets  *)
(* replies with and without a fact annotation; a "long" call repeats one   *)
(* fragment often enough to fill the history; a "hangup" call is one that  *)
(* Twilio stops or closes while the session is still at work; a "media"    *)
(* call is one whose media frames are followed on their way to Deepgram.   *)
(***************************************************************************)
Envs == {"varied", "long", "hangup", "media"}

Fragments(e) ==
    IF e = "varied" THEN { <<"o", "k">>, <<"y", "e", "s">>, <<" ">> }
                    ELSE { <<"y", "e", "s">> }

GptReplies(e) ==
    IF e = "varied"
    THEN { <<"Great!">>,
           <<"[MEM:", " ", "intent", "=", "BUY", "]", " ", "Great!">> }
    ELSE { <<"Great!">> }

MaxTurns(e) ==
    CASE e = "varied" -> MaxTurnsVaried
      [] e = "long"   -> MaxTurnsLong
      [] e = "media"  -> MaxTurnsMedia
      [] OTHER        -> MaxTurnsHangup

(***************************************************************************)
(* String.prototype.trim on a sequence of characters or tokens.            *)
(***************************************************************************)
RECURSIVE TrimStart(_)
TrimStart(s) ==
    IF s = <<>> THEN s
    ELSE IF s[1] = " " THEN TrimStart(Tail(s)) ELSE s

RECURSIVE TrimEnd(_)
TrimEnd(s) ==
    IF s = <<>> THEN s
    ELSE IF s[Len(s)] = " " THEN TrimEnd(SubSeq(s, 1, Len(s) - 1)) ELSE s

Trim(s) == TrimEnd(TrimStart(s))

(***************************************************************************)
(* parseMemoryUpdate(response, memory): the first [MEM: k=v, ...]          *)
(* annotation of the reply is applied to the memory and cut out of the     *)
(* text.                                                                   *)
(***************************************************************************)
\* /\[MEM:\s*([^\]]+)\]/ matches at i: "[MEM:", one or more characters
\* other than "]", then "]".
IsMatchAt(r, i) ==
    /\ r[i] = "[MEM:"
    /\ i + 2 <= Len(r)
    /\ r[i + 1] # "]"
    /\ \E j \in (i + 2)..Len(r) : r[j] = "]"

HasMatch(r) == \E i \in 1..Len(r) : IsMatchAt(r, i)

MatchStart(r) ==
    CHOOSE i \in 1..Len(r) :
        IsMatchAt(r, i) /\ \A k \in 1..(i - 1) : ~IsMatchAt(r, k)

MatchClose(r, i) ==
    CHOOSE j \in (i + 2)..Len(r) :
        r[j] = "]" /\ \A k \in (i + 2)..(j - 1) : r[k] # "]"

\* the capture group: \s* is greedy but leaves one character to [^\]]+
MatchGroup(r, i) ==
    LET g == SubSeq(r, i + 1, MatchClose(r, i) - 1)
    IN  IF TrimStart(g) = <<>> THEN <<g[Len(g)]>> ELSE TrimStart(g)

\* String.prototype.split(sep) for a one-character separator
RECURSIVE Split(_, _)
Split(s, sep) ==
    IF \E k \in 1..Len(s) : s[k] = sep
    THEN LET k == CHOOSE k \in 1..Len(s) :
                      s[k] = sep /\ \A m \in 1..(k - 1) : s[m] # sep
         IN  <<SubSeq(s, 1, k - 1)>> \o Split(SubSeq(s, k + 1, Len(s)), sep)
    ELSE <<s>>

\* Array.prototype.join(sep)
RECURSIVE Join(_, _)
Join(parts, sep) ==
    IF parts = <<>> THEN <<>>
    ELSE IF Len(parts) = 1 THEN parts[1]
    ELSE parts[1] \o <<sep>> \o Join(Tail(parts), sep)

\* memory.hasOwnProperty(cleanKey)
HasOwnProperty(cleanKey) == Len(cleanKey) = 1 /\ cleanKey[1] \in MemoryKeys

\* a forEach body that never overwrites a fact
ApplyPair_firstWins(pair, mem) ==
    LET parts    == Split(pair, "=")
        value    == Trim(Join(Tail(parts), "="))
        cleanKey == Trim(parts[1])
    IN  IF HasOwnProperty(cleanKey) /\ value # <<>> /\ value # <<"null">>
           /\ mem[cleanKey[1]] = NULL
        THEN [mem EXCEPT ![cleanKey[1]] = value]
        ELSE mem

\* a forEach body that does not ask whether the memory has the key
ApplyPair_anyKey(pair, mem) ==
    LET parts    == Split(pair, "=")
        value    == Trim(Join(Tail(parts), "="))
        cleanKey == Trim(parts[1])
    IN  IF Len(cleanKey) = 1 /\ value # <<>> /\ value # <<"null">>
        THEN [k \in DOMAIN mem \cup {cleanKey[1]} |->
                 IF k = cleanKey[1] THEN value ELSE mem[k]]
        ELSE mem

\* the body of updates.split(",").forEach(pair => ...)
ApplyPair(pair, mem) ==
    LET parts    == Split(pair, "=")
        value    == Trim(Join(Tail(parts), "="))
        cleanKey == Trim(parts[1])
    IN  IF HasOwnProperty(cleanKey) /\ value # <<>> /\ value # <<"null">>
        THEN [mem EXCEPT ![cleanKey[1]] = value]
        ELSE mem

RECURSIVE ApplyPairs(_, _)
ApplyPairs(pairs, mem) ==
    IF pairs = <<>> THEN mem
    ELSE ApplyPairs(Tail(pairs), ApplyPair(pairs[1], mem))

\* response.replace(/\[MEM:[^\]]+\]\s*/, "").trim()
CleanResponse(r) ==
    LET i == MatchStart(r)
        j == MatchClose(r, i)
    IN  Trim(SubSeq(r, 1, i - 1) \o TrimStart(SubSeq(r, j + 1, Len(r))))

parseMemoryUpdate(response, mem) ==
    IF HasMatch(response)
    THEN [clean  |-> CleanResponse(response),
          memory |-> ApplyPairs(Split(MatchGroup(response, MatchStart(response)), ","), mem)]
    ELSE [clean |-> response, memory |-> mem]

\* askGPT whose catch block returns an empty reply instead of the apology
askGPT_empty(ok, fullResponse) == IF ok THEN Trim(fullResponse) ELSE <<>>

(***************************************************************************)
(* askGPT: the streamed reply, trimmed; the catch block returns the fixed  *)
(* apology.  ok = FALSE stands for openai.chat.completions.create (or the  *)
(* stream) throwing.                                                       *)
(***************************************************************************)
askGPT(ok, fullResponse) == IF ok THEN Trim(fullResponse) ELSE FALLBACK

\* Array.prototype.splice(start, deleteCount) applied at the front
Splice(h, deleteCount) ==
    IF deleteCount >= Len(h) THEN <<>> ELSE SubSeq(h, deleteCount + 1, Len(h))

\* the trim with a threshold two entries too high
TrimHistory_late(h) == IF Len(h) > MAX_HISTORY + 2 THEN Splice(h, 2) ELSE h

\* the trim removing one entry, splice(0, 1)
TrimHistory_one(h) == IF Len(h) > MAX_HISTORY THEN Splice(h, 1) ELSE h

\* if (conversationHistory.length > MAX_HISTORY) conversationHistory.splice(0, 2)
TrimHistory(h) == IF Len(h) > MAX_HISTORY THEN Splice(h, 2) ELSE h

\* the length check rejecting the empty text only
TooShort_empty(text) == Len(text) < 1

\* if (text.length < MIN_CHARS) return
TooShort(text) == Len(text) < MIN_CHARS

\* handleUserUtterance without its gate
AlreadyProcessing_never == FALSE

\* if (isProcessing) return
AlreadyProcessing == isProcessing

Step(op, outcome, cancelled) ==
    [op |-> op, outcome |-> outcome, cancelled |-> cancelled]

Remove(s, i) == SubSeq(s, 1, i - 1) \o SubSeq(s, i + 1, Len(s))

\* the other programs of the repository at rest
AuxInit ==
    /\ parseMemory = [k \in MemoryKeys |-> NULL]
    /\ rawReply = <<>>
    /\ cleanReply = <<>>
    /\ conn = [ws |-> "open", callSid |-> NoSid, isProcessing |-> FALSE,
               silenceTimer |-> 0, deepgramWs |-> "null"]
    /\ connTimers = {}
    /\ conversationHistoryMap = [sid \in {"CA1"} |-> <<>>]
    /\ suspended = <<>>
    /\ crashed = FALSE
    /\ released = [history |-> 0, deepgramWs |-> 0]
    /\ started = [turns |-> 0, checkins |-> 0]
    /\ mapLast = [op |-> "init", outcome |-> "-"]
    /\ CURRENT_CALL_SID = NoSid
    /\ streams = [c \in {"CA1", "CA2"} |->
                    [stage |-> "ringing", hasReplied |-> FALSE, dgReady |-> FALSE,
                     queued |-> <<>>, sent |-> <<>>, flushed |-> 0,
                     received |-> 0, pc |-> "none"]]
    /\ playbackUpdates = <<>>
    /\ sharedLast = [op |-> "init", call |-> NoSid]
    /\ speakText = <<>>
    /\ speakPc = "idle"
    /\ providerCalls = <<>>
    /\ providerFailed = {}
    /\ speakOutcome = [kind |-> "none", by |-> "-"]
    /\ speakCount = 0
    /\ speech = [ws |-> "open", callSid |-> NoSid, audioChunks |-> <<>>,
                 isSpeaking |-> FALSE, processing |-> FALSE, history |-> <<>>,
                 pc |-> "none", received |-> 0]
    /\ speechLog = [requests |-> <<>>, arrivedInFlight |-> {}, discarded |-> {}]
    /\ speechLast = [op |-> "init", outcome |-> "-"]

Init ==
    /\ AuxInit
    /\ framesIn = 0
    /\ dgSent = <<>>
    /\ env \in Envs
    /\ wsState = "open"
    /\ utteranceEndQueued = FALSE
    /\ heard = "-"
    /\ callSid = NoSid
    /\ streamSid = NoSid
    /\ utteranceBuffer = <<>>
    /\ isProcessing = FALSE
    /\ isSpeaking = FALSE
    /\ safetyTimer = 0
    /\ timers = {}
    /\ lastUserText = <<>>
    /\ memory = [k \in MemoryKeys |-> NULL]
    /\ conversationHistory = <<>>
    /\ inflight = <<>>
    /\ nTurns = 0
    /\ callsSinceFinal = 0
    /\ evicted = <<>>
    /\ done = NoTurn
    /\ last = Step("init", "-", FALSE)

\* handleUserUtterance logging the caller's text before it looks at the gate
handleUserUtterance_pushFirst(text, op, cancelled) ==
    /\ callsSinceFinal' = IF callsSinceFinal < 2 THEN callsSinceFinal + 1 ELSE 2
    /\ IF TooShort(text)
       THEN /\ last' = Step(op, "short", cancelled)
            /\ UNCHANGED <<isProcessing, isSpeaking, lastUserText,
                           conversationHistory, inflight, nTurns>>
       ELSE IF AlreadyProcessing
       THEN /\ last' = Step(op, "gated", cancelled)
            /\ conversationHistory' =
                   Append(conversationHistory,
                          [role |-> "user", content |-> text, turn |-> nTurns + 1])
            /\ UNCHANGED <<isProcessing, isSpeaking, lastUserText, inflight, nTurns>>
       ELSE /\ last' = Step(op, "accepted", cancelled)
            /\ lastUserText' = text
            /\ isProcessing' = TRUE
            /\ isSpeaking' = FALSE
            /\ nTurns' = nTurns + 1
            /\ conversationHistory' =
                   Append(conversationHistory,
                          [role |-> "user", content |-> text, turn |-> nTurns + 1])
            /\ inflight' =
                   Append(inflight,
                          [turn |-> nTurns + 1, text |-> text, pc |-> "askGPT",
                           handed |-> Len(conversationHistory) + 1,
                           gptFailed |-> FALSE, reply |-> <<>>, merged |-> 0,
                           delivered |-> 0])

(***************************************************************************)
(* handleUserUtterance(text), up to its first await (the request to the    *)
(* language model inside askGPT).                                          *)
(***************************************************************************)
handleUserUtterance(text, op, cancelled) ==
    /\ callsSinceFinal' = IF callsSinceFinal < 2 THEN callsSinceFinal + 1 ELSE 2
    /\ IF TooShort(text)
       THEN /\ last' = Step(op, "short", cancelled)
            /\ UNCHANGED <<isProcessing, isSpeaking, lastUserText,
                           conversationHistory, inflight, nTurns>>
       ELSE IF AlreadyProcessing
       THEN /\ last' = Step(op, "gated", cancelled)
            /\ UNCHANGED <<isProcessing, isSpeaking, lastUserText,
                           conversationHistory, inflight, nTurns>>
       ELSE /\ last' = Step(op, "accepted", cancelled)
            /\ lastUserText' = text
            /\ isProcessing' = TRUE
            /\ isSpeaking' = FALSE
            /\ nTurns' = nTurns + 1
            /\ conversationHistory' =
                   Append(conversationHistory,
                          [role |-> "user", content |-> text, turn |-> nTurns + 1])
            /\ inflight' =
                   Append(inflight,
                          [turn |-> nTurns + 1, text |-> text, pc |-> "askGPT",
                           handed |-> Len(conversationHistory) + 1,
                           gptFailed |-> FALSE, reply |-> <<>>, merged |-> 0,
                           delivered |-> 0])

(***************************************************************************)
(* ws.on("message"): the start event of the media stream.  Twilio sends it *)
(* once, before any media frame.                                           *)
(***************************************************************************)
WsStart ==
    /\ wsState = "open"
    /\ callSid = NoSid
    /\ callSid' = "CA1"
    /\ streamSid' = "MZ1"
    /\ evicted' = <<>>
    /\ last' = Step("WsStart", "-", FALSE)
    /\ done' = NoTurn
    /\ UNCHANGED <<auxVars, framesIn, dgSent, env, heard, wsState, utteranceEndQueued, utteranceBuffer, isProcessing, isSpeaking, safetyTimer,
                   timers, lastUserText, memory, conversationHistory, inflight,
                   nTurns, callsSinceFinal>>

\* the handle returned by setTimeout: one that no armed timer and not the
\* variable holds
NewTimer ==
    CHOOSE id \in 1..(Cardinality(timers) + 2) : id \notin timers /\ id # safetyTimer

\* a clearTimeout that cancels nothing
ClearTimeout_noop(pending, handle) == pending

\* clearTimeout(safetyTimer)
ClearTimeout(pending, handle) == pending \ {handle}

\* a handler that takes every fragment for a final one
Transcript_ignoresIsFinal(transcript, is_final) ==
    /\ streamSid # NoSid
    /\ ~utteranceEndQueued
    /\ nTurns < MaxTurns(env)
    /\ evicted' = <<>>
    /\ IF transcript # <<>>
       THEN /\ Len(utteranceBuffer) + 1 + Len(transcript) <= MaxBuf
            /\ utteranceBuffer' = utteranceBuffer \o <<" ">> \o transcript
            /\ safetyTimer' = NewTimer
            /\ timers' = ClearTimeout(timers, safetyTimer) \cup {NewTimer}
            /\ callsSinceFinal' = 0
            /\ heard' = IF is_final
                        THEN IF utteranceBuffer = <<>> /\ heard = "interim"
                             THEN "interim-final" ELSE "-"
                        ELSE IF utteranceBuffer = <<>> THEN "interim" ELSE "-"
            /\ last' = Step("Transcript", IF is_final THEN "final" ELSE "interim",
                            safetyTimer \in timers)
       ELSE /\ last' = Step("Transcript", "empty", FALSE)
            /\ UNCHANGED <<heard, utteranceBuffer, safetyTimer, timers,
                           callsSinceFinal>>
    /\ done' = NoTurn
    /\ UNCHANGED <<auxVars, framesIn, dgSent, env, wsState, utteranceEndQueued, callSid, streamSid,
                   isProcessing, isSpeaking, lastUserText, memory,
                   conversationHistory, inflight, nTurns>>

(***************************************************************************)
(* dg.on(Transcript): recognition only runs on the audio of a started      *)
(* stream.  An interim result is only logged; a final one is appended to   *)
(* the buffer and re-arms the safety timer.  The provider's messages are   *)
(* handled in the order of their arrival, so none is handled while an      *)
(* UtteranceEnd that arrived before it is queued.                          *)
(***************************************************************************)
Transcript(transcript, is_final) ==
    /\ streamSid # NoSid
    /\ ~utteranceEndQueued
    /\ nTurns < MaxTurns(env)
    /\ evicted' = <<>>
    /\ IF transcript # <<>> /\ is_final
       THEN /\ Len(utteranceBuffer) + 1 + Len(transcript) <= MaxBuf
            /\ utteranceBuffer' = utteranceBuffer \o <<" ">> \o transcript
            /\ safetyTimer' = NewTimer
            /\ timers' = ClearTimeout(timers, safetyTimer) \cup {NewTimer}
            /\ callsSinceFinal' = 0
            /\ heard' = IF utteranceBuffer = <<>> /\ heard = "interim"
                        THEN "interim-final" ELSE "-"
            /\ last' = Step("Transcript", "final", safetyTimer \in timers)
       ELSE /\ last' = Step("Transcript",
                            IF transcript = <<>> THEN "empty" ELSE "interim", FALSE)
            /\ heard' = IF transcript = <<>> THEN heard
                        ELSE IF utteranceBuffer = <<>> THEN "interim" ELSE "-"
            /\ UNCHANGED <<utteranceBuffer, safetyTimer, timers, callsSinceFinal>>
    /\ done' = NoTurn
    /\ UNCHANGED <<auxVars, framesIn, dgSent, env, wsState, utteranceEndQueued, callSid, streamSid, isProcessing, isSpeaking,
                   lastUserText, memory, conversationHistory, inflight, nTurns>>

\* a timer callback that hands the utterance over and keeps it in the buffer
SafetyTimerFires_keepsBuffer(id) ==
    /\ id \in timers
    /\ timers' = timers \ {id}
    /\ evicted' = <<>>
    /\ LET trimmed == Trim(utteranceBuffer)
       IN  IF trimmed # <<>>
           THEN /\ handleUserUtterance(trimmed, "SafetyTimer", FALSE)
                /\ UNCHANGED utteranceBuffer
           ELSE /\ last' = Step("SafetyTimer", "empty", FALSE)
                /\ UNCHANGED <<utteranceBuffer, isProcessing, isSpeaking,
                               lastUserText, conversationHistory, inflight,
                               nTurns, callsSinceFinal>>
    /\ done' = NoTurn
    /\ UNCHANGED <<auxVars, framesIn, dgSent, env, heard, wsState, utteranceEndQueued, callSid, streamSid,
                   safetyTimer, memory>>

(***************************************************************************)
(* The callback of the safety timer.                                       *)
(***************************************************************************)
SafetyTimerFires(id) ==
    /\ id \in timers
    /\ timers' = timers \ {id}
    /\ evicted' = <<>>
    /\ LET trimmed == Trim(utteranceBuffer)
       IN  IF trimmed # <<>>
           THEN /\ handleUserUtterance(trimmed, "SafetyTimer", FALSE)
                /\ utteranceBuffer' = <<>>
           ELSE /\ last' = Step("SafetyTimer", "empty", FALSE)
                /\ UNCHANGED <<utteranceBuffer, isProcessing, isSpeaking,
                               lastUserText, conversationHistory, inflight,
                               nTurns, callsSinceFinal>>
    /\ done' = NoTurn
    /\ UNCHANGED <<auxVars, framesIn, dgSent, env, heard, wsState, utteranceEndQueued, callSid, streamSid, safetyTimer, memory>>

(***************************************************************************)
(* dg.on(UtteranceEnd).                                                    *)
(***************************************************************************)
UtteranceEnd ==
    /\ utteranceEndQueued
    /\ utteranceEndQueued' = FALSE
    /\ timers' = ClearTimeout(timers, safetyTimer)
    /\ utteranceBuffer' = <<>>
    /\ evicted' = <<>>
    /\ LET finalText == Trim(utteranceBuffer)
       IN  IF finalText # <<>>
           THEN handleUserUtterance(finalText, "UtteranceEnd", safetyTimer \in timers)
           ELSE /\ last' = Step("UtteranceEnd", "empty", safetyTimer \in timers)
                /\ UNCHANGED <<isProcessing, isSpeaking, lastUserText,
                               conversationHistory, inflight, nTurns,
                               callsSinceFinal>>
    /\ done' = NoTurn
    /\ UNCHANGED <<auxVars, framesIn, dgSent, env, heard, wsState, callSid, streamSid, safetyTimer, memory>>

(***************************************************************************)
(* dg.on(SpeechStarted).                                                   *)
(***************************************************************************)
SpeechStarted ==
    /\ streamSid # NoSid
    /\ ~utteranceEndQueued
    /\ isSpeaking' = FALSE
    /\ evicted' = <<>>
    /\ last' = Step("SpeechStarted", IF isSpeaking THEN "interrupted" ELSE "-", FALSE)
    /\ done' = NoTurn
    /\ UNCHANGED <<auxVars, framesIn, dgSent, env, heard, wsState, utteranceEndQueued, callSid, streamSid, utteranceBuffer, isProcessing,
                   safetyTimer, timers, lastUserText, memory,
                   conversationHistory, inflight, nTurns, callsSinceFinal>>

\* a resumption that logs the reply twice
GptReturns_pushTwice(i, ok, fullResponse) ==
    /\ i \in 1..Len(inflight)
    /\ inflight[i].pc = "askGPT"
    /\ LET rawResponse == askGPT(ok, fullResponse)
           parsed      == parseMemoryUpdate(rawResponse, memory)
           entry       == [role |-> "assistant", content |-> parsed.clean,
                           turn |-> inflight[i].turn]
           pushed      == Append(Append(conversationHistory, entry), entry)
       IN  /\ memory' = parsed.memory
           /\ conversationHistory' = TrimHistory(pushed)
           /\ evicted' = SubSeq(pushed, 1, Len(pushed) - Len(TrimHistory(pushed)))
           /\ inflight' = [inflight EXCEPT ![i] =
                              [@ EXCEPT !.pc = "textToSpeech",
                                        !.gptFailed = ~ok,
                                        !.merged = @ + 1,
                                        !.reply = parsed.clean]]
    /\ isSpeaking' = TRUE
    /\ last' = Step("GptReturns", IF ok THEN "ok" ELSE "failed", FALSE)
    /\ done' = NoTurn
    /\ UNCHANGED <<auxVars, framesIn, dgSent, env, heard, wsState, utteranceEndQueued, callSid, streamSid,
                   utteranceBuffer, isProcessing, safetyTimer, timers,
                   lastUserText, nTurns, callsSinceFinal>>

(***************************************************************************)
(* handleUserUtterance resumed after await askGPT(...): the reply (or the  *)
(* apology of askGPT's catch block) is parsed, logged in the history, the  *)
(* history is trimmed, and the synthesis request is issued.                *)
(***************************************************************************)
GptReturns(i, ok, fullResponse) ==
    /\ i \in 1..Len(inflight)
    /\ inflight[i].pc = "askGPT"
    /\ LET rawResponse == askGPT(ok, fullResponse)
           parsed      == parseMemoryUpdate(rawResponse, memory)
           pushed      == Append(conversationHistory,
                                 [role |-> "assistant", content |-> parsed.clean,
                                  turn |-> inflight[i].turn])
       IN  /\ memory' = parsed.memory
           /\ conversationHistory' = TrimHistory(pushed)
           /\ evicted' = SubSeq(pushed, 1, Len(pushed) - Len(TrimHistory(pushed)))
           /\ inflight' = [inflight EXCEPT ![i] =
                              [@ EXCEPT !.pc = "textToSpeech",
                                        !.gptFailed = ~ok,
                                        !.merged = @ + 1,
                                        !.reply = parsed.clean]]
    /\ isSpeaking' = TRUE
    /\ last' = Step("GptReturns", IF ok THEN "ok" ELSE "failed", FALSE)
    /\ done' = NoTurn
    /\ UNCHANGED <<auxVars, framesIn, dgSent, env, heard, wsState, utteranceEndQueued, callSid, streamSid, utteranceBuffer, isProcessing,
                   safetyTimer, timers, lastUserText, nTurns, callsSinceFinal>>

\* a turn that ends without resetting the gate
Finally_skipped == UNCHANGED isProcessing

\* finally { isProcessing = false }
Finally == isProcessing' = FALSE

\* an end of handleUserUtterance that leaves isSpeaking as it is
Finish_keepsSpeaking(i, op, outcome) ==
    /\ UNCHANGED isSpeaking
    /\ Finally
    /\ done' = [turn      |-> inflight[i].turn,
                text      |-> inflight[i].text,
                gptFailed |-> inflight[i].gptFailed,
                reply     |-> inflight[i].reply,
                merged    |-> inflight[i].merged,
                delivered |-> inflight[i].delivered]
    /\ inflight' = Remove(inflight, i)
    /\ last' = Step(op, outcome, FALSE)

\* the end of handleUserUtterance: isSpeaking = false, then the finally block
Finish(i, op, outcome) ==
    /\ isSpeaking' = FALSE
    /\ Finally
    /\ done' = [turn      |-> inflight[i].turn,
                text      |-> inflight[i].text,
                gptFailed |-> inflight[i].gptFailed,
                reply     |-> inflight[i].reply,
                merged    |-> inflight[i].merged,
                delivered |-> inflight[i].delivered]
    /\ inflight' = Remove(inflight, i)
    /\ last' = Step(op, outcome, FALSE)

(***************************************************************************)
(* handleUserUtterance resumed after await textToSpeech(...): a Buffer, or *)
(* null when the request failed.  With audio and a streamSid the audio is  *)
(* sent to the caller (sendAudioToTwilio); otherwise nothing is played.    *)
(***************************************************************************)
TtsReturns(i, ok) ==
    /\ i \in 1..Len(inflight)
    /\ inflight[i].pc = "textToSpeech"
    /\ evicted' = <<>>
    /\ IF ok /\ streamSid # NoSid
       THEN /\ inflight' = [inflight EXCEPT ![i] =
                               [@ EXCEPT !.pc = "sendAudioToTwilio",
                                         !.delivered =
                                             IF wsState = "closed" THEN @ ELSE @ + 1]]
            /\ last' = Step("TtsReturns", "audio", FALSE)
            /\ done' = NoTurn
            /\ UNCHANGED <<isProcessing, isSpeaking>>
       ELSE Finish(i, "TtsReturns", "done")
    /\ UNCHANGED <<auxVars, framesIn, dgSent, env, heard, wsState, utteranceEndQueued, callSid, streamSid, utteranceBuffer, safetyTimer,
                   timers, lastUserText, memory, conversationHistory, nTurns,
                   callsSinceFinal>>

(***************************************************************************)
(* handleUserUtterance resumed after await sendAudioToTwilio(...).         *)
(***************************************************************************)
SendDone(i) ==
    /\ i \in 1..Len(inflight)
    /\ inflight[i].pc = "sendAudioToTwilio"
    /\ evicted' = <<>>
    /\ Finish(i, "SendDone", "done")
    /\ UNCHANGED <<auxVars, framesIn, dgSent, env, heard, wsState, utteranceEndQueued, callSid, streamSid, utteranceBuffer, safetyTimer,
                   timers, lastUserText, memory, conversationHistory, nTurns,
                   callsSinceFinal>>

(***************************************************************************)
(* The provider sends an UtteranceEnd message; its handler runs in a later *)
(* turn of the event loop, after whatever callback is dequeued before it.  *)
(***************************************************************************)
UtteranceEndArrives ==
    /\ streamSid # NoSid
    /\ ~utteranceEndQueued
    /\ utteranceEndQueued' = TRUE
    /\ evicted' = <<>>
    /\ last' = Step("UtteranceEndArrives", "-", FALSE)
    /\ done' = NoTurn
    /\ UNCHANGED <<auxVars, framesIn, dgSent, env, heard, wsState, callSid, streamSid, utteranceBuffer, isProcessing,
                   isSpeaking, safetyTimer, timers, lastUserText, memory,
                   conversationHistory, inflight, nTurns, callsSinceFinal>>

(***************************************************************************)
(* ws.on("message"): the stop event.  The handler logs the summary of the  *)
(* call and changes nothing.                                               *)
(***************************************************************************)
WsStop ==
    /\ env = "hangup"
    /\ wsState = "open"
    /\ streamSid # NoSid
    /\ wsState' = "stopped"
    /\ evicted' = <<>>
    /\ last' = Step("WsStop", "-", FALSE)
    /\ done' = NoTurn
    /\ UNCHANGED <<auxVars, framesIn, dgSent, env, heard, utteranceEndQueued, callSid, streamSid, utteranceBuffer,
                   isProcessing, isSpeaking, safetyTimer, timers, lastUserText,
                   memory, conversationHistory, inflight, nTurns,
                   callsSinceFinal>>

(***************************************************************************)
(* ws.on("close"): clearTimeout(safetyTimer); dg.finish().  The provider   *)
(* still delivers the results of the audio it was sent before it closes.   *)
(***************************************************************************)
WsClose ==
    /\ env = "hangup"
    /\ wsState # "closed"
    /\ wsState' = "closed"
    /\ timers' = ClearTimeout(timers, safetyTimer)
    /\ evicted' = <<>>
    /\ last' = Step("WsClose", "-", safetyTimer \in timers)
    /\ done' = NoTurn
    /\ UNCHANGED <<auxVars, framesIn, dgSent, env, heard, utteranceEndQueued, callSid, streamSid, utteranceBuffer,
                   isProcessing, isSpeaking, safetyTimer, lastUserText, memory,
                   conversationHistory, inflight, nTurns, callsSinceFinal>>

\* a handler that forwards audio only while no turn is in flight
WsMedia_onlyWhenIdle ==
    /\ env = "media"
    /\ wsState = "open"
    /\ streamSid # NoSid
    /\ framesIn < MaxFrames
    /\ framesIn' = framesIn + 1
    /\ dgSent' = IF isProcessing THEN dgSent ELSE Append(dgSent, framesIn + 1)
    /\ evicted' = <<>>
    /\ done' = NoTurn
    /\ last' = Step("WsMedia", IF isProcessing THEN "responding" ELSE "-", FALSE)
    /\ UNCHANGED <<auxVars, env, heard, wsState, utteranceEndQueued, callSid,
                   streamSid, utteranceBuffer, isProcessing, isSpeaking,
                   safetyTimer, timers, lastUserText, memory,
                   conversationHistory, inflight, nTurns, callsSinceFinal>>

(***************************************************************************)
(* ws.on("message"): a media event.  The audio is handed to dg.send        *)
(* whatever the state of the turn.  Twilio sends media after the start     *)
(* event and none after the stop event.                                    *)
(***************************************************************************)
WsMedia ==
    /\ env = "media"
    /\ wsState = "open"
    /\ streamSid # NoSid
    /\ framesIn < MaxFrames
    /\ framesIn' = framesIn + 1
    /\ dgSent' = Append(dgSent, framesIn + 1)
    /\ evicted' = <<>>
    /\ done' = NoTurn
    /\ last' = Step("WsMedia", IF isProcessing THEN "responding" ELSE "-", FALSE)
    /\ UNCHANGED <<auxVars, env, heard, wsState, utteranceEndQueued, callSid,
                   streamSid, utteranceBuffer, isProcessing, isSpeaking,
                   safetyTimer, timers, lastUserText, memory,
                   conversationHistory, inflight, nTurns, callsSinceFinal>>

Next ==
    \/ WsStart
    \/ WsMedia
    \/ WsStop
    \/ WsClose
    \/ UtteranceEndArrives
    \/ \E transcript \in Fragments(env) \cup {<<>>}, is_final \in BOOLEAN :
           Transcript(transcript, is_final)
    \/ \E id \in timers : SafetyTimerFires(id)
    \/ UtteranceEnd
    \/ SpeechStarted
    \/ \E i \in 1..Len(inflight), ok \in BOOLEAN, r \in GptReplies(env) :
           GptReturns(i, ok, r)
    \/ \E i \in 1..Len(inflight), ok \in BOOLEAN : TtsReturns(i, ok)
    \/ \E i \in 1..Len(inflight) : SendDone(i)

Spec == Init /\ [][Next]_vars

TypeOK ==
    /\ env \in Envs
    /\ isProcessing \in BOOLEAN
    /\ isSpeaking \in BOOLEAN
    /\ Len(utteranceBuffer) <= MaxBuf
    /\ nTurns <= MaxTurns(env)
    /\ wsState \in {"open", "stopped", "closed"}
    /\ utteranceEndQueued \in BOOLEAN
    /\ heard \in {"-", "interim", "interim-final"}
    /\ framesIn \in 0..MaxFrames
    /\ Len(dgSent) <= framesIn
    /\ (wsState # "open") => env = "hangup"

(***************************************************************************)
(* Fairness: a request to the language model, to the synthesizer, and the  *)
(* sending of the audio each eventually return or throw.                   *)
(***************************************************************************)
LiveSpec ==
    /\ Spec
    /\ WF_vars(\E i \in 1..Len(inflight), ok \in BOOLEAN, r \in GptReplies(env) :
                   GptReturns(i, ok, r))
    /\ WF_vars(\E i \in 1..Len(inflight), ok \in BOOLEAN : TtsReturns(i, ok))
    /\ WF_vars(\E i \in 1..Len(inflight) : SendDone(i))

(***************************************************************************)
(* Properties.                                                             *)
(***************************************************************************)
\* the step just taken finalized the utterance (UtteranceEnd or safety timer)
Finalized == last.op \in {"UtteranceEnd", "SafetyTimer"}

\* the step just taken called handleUserUtterance
Called == Finalized /\ last.outcome # "empty"

\* the step just taken ran a turn to its finally block
TurnDone == last.outcome = "done"

\* C1: at most one turn is in flight in every reachable state: no call of
\* handleUserUtterance is accepted while an earlier accepted call has not
\* reached its finally block.
C1_SingleFlight == Len(inflight) <= 1

C1_Witness == Len(inflight) = 1 /\ last.outcome = "gated"

\* C2: a call of handleUserUtterance made while isProcessing is true changes
\* neither the history, the memory, the gate, lastUserText nor the turn in
\* flight, and issues no request.
C2_GatedCallIsNoOp ==
    [][(Called' /\ isProcessing) =>
           UNCHANGED <<conversationHistory, memory, isProcessing, lastUserText,
                       inflight, nTurns>>]_vars

C2_Witness ==
    /\ last.outcome = "gated"
    /\ isProcessing
    /\ inflight # <<>>
    /\ inflight[1].pc = "textToSpeech"

\* C3: a finalization (by UtteranceEnd or by the safety timer) of a buffer
\* whose trimmed text is empty or shorter than MIN_CHARS starts no turn: the
\* gate, the history and the requests in flight are unchanged.
C3_ShortNeverStartsTurn ==
    [][(Finalized' /\ Len(Trim(utteranceBuffer)) < MIN_CHARS) =>
           UNCHANGED <<isProcessing, conversationHistory, inflight, nTurns>>]_vars

C3_Witness == last.op = "SafetyTimer" /\ last.outcome = "short" /\ ~isProcessing

\* C4: after UtteranceEnd no safety timer is pending and the buffer is empty,
\* and handleUserUtterance is called at most once for the fragments of one
\* utterance.
C4_UtteranceEndPreempts ==
    /\ last.op = "UtteranceEnd" => (timers = {} /\ utteranceBuffer = <<>>)
    /\ (last.op = "UtteranceEnd" /\ last.outcome # "empty") => callsSinceFinal = 1
    /\ callsSinceFinal <= 1

C4_Witness ==
    /\ last = Step("UtteranceEnd", "accepted", TRUE)
    /\ callsSinceFinal = 1
    /\ timers = {}

C6_EvictsOldestExchange ==
    evicted # <<>> =>
        /\ Len(evicted) = 2
        /\ evicted[1].role = "user"
        /\ evicted[2].role = "assistant"
        /\ evicted[2].turn = evicted[1].turn
        /\ \A k \in 1..Len(conversationHistory) :
               conversationHistory[k].turn > evicted[1].turn

C6_Witness ==
    /\ evicted # <<>>
    /\ last = Step("GptReturns", "failed", FALSE)
    /\ Len(conversationHistory) = MAX_HISTORY

\* C7 as stated: a turn whose reply generation failed has delivered exactly
\* one response when it ends.
C7_FailedTurnDeliversOnce == (TurnDone /\ done.gptFailed) => done.delivered = 1

\* C8: when the turn of a failed reply generation ends, its reply is the
\* apology and the history holds the caller's text followed by the apology.
C8_FallbackReplyAndCallerLogged ==
    (TurnDone /\ done.gptFailed) =>
        /\ done.reply = FALLBACK
        /\ \E k \in 1..(Len(conversationHistory) - 1) :
               /\ conversationHistory[k] =
                      [role |-> "user", content |-> done.text, turn |-> done.turn]
               /\ conversationHistory[k + 1] =
                      [role |-> "assistant", content |-> FALLBACK, turn |-> done.turn]

C8_Witness == TurnDone /\ done.gptFailed /\ done.delivered = 1

\* C9: every accepted turn eventually returns the gate to idle (under
\* LiveSpec: each collaborator call eventually returns or throws).
C9_EventuallyIdle == isProcessing ~> ~isProcessing

C9_Witness == TurnDone /\ ~isProcessing /\ done.delivered = 0 /\ ~done.gptFailed

\* C10 as stated: every finalized utterance of at least MIN_CHARS characters
\* gets exactly one delivered reply: none is refused, and every turn has
\* delivered exactly one reply when it ends.
C10_ExactlyOneReplyPerUtterance ==
    /\ ~(Called /\ last.outcome = "gated")
    /\ TurnDone => done.delivered = 1

\* the entries of the history that turn t appended in the given role
EntriesOf(history, t, role) ==
    {k \in DOMAIN history : history[k].turn = t /\ history[k].role = role}

\* C11: a turn that returns to idle has appended exactly one caller entry
\* and exactly one reply entry to the history and has merged the fact
\* annotations of its reply exactly once; the history and the facts change in
\* no other step than the acceptance of a turn (one caller entry appended)
\* and the resumption after askGPT (one reply entry appended, one merge), so
\* a call that is rejected as too short or gated appends nothing.
C11_OneUpdatePerAcceptedTurn ==
    [][ /\ TurnDone' =>
              /\ done'.merged = 1
              /\ Cardinality(EntriesOf(conversationHistory', done'.turn, "user")) = 1
              /\ Cardinality(EntriesOf(conversationHistory', done'.turn, "assistant")) = 1
        /\ (Called' /\ last'.outcome \in {"short", "gated"}) =>
              UNCHANGED <<conversationHistory, memory>>
        /\ (conversationHistory' # conversationHistory) =>
              \/ /\ last'.outcome = "accepted"
                 /\ conversationHistory' =
                        Append(conversationHistory,
                               [role |-> "user", content |-> lastUserText',
                                turn |-> nTurns'])
              \/ /\ last'.op = "GptReturns"
                 /\ \E e \in {conversationHistory'[Len(conversationHistory')]} :
                        /\ e.role = "assistant"
                        /\ conversationHistory' =
                               TrimHistory(Append(conversationHistory, e))
        /\ (memory' # memory) => last'.op = "GptReturns"
      ]_vars

\* a turn whose reply carried a fact annotation has returned to idle with its
\* one reply entry in the history and the fact merged
C11_Witness ==
    /\ TurnDone
    /\ memory.intent = <<"BUY">>
    /\ done.merged = 1
    /\ Cardinality(EntriesOf(conversationHistory, done.turn, "assistant")) = 1

\* C12: an utterance of at least MIN_CHARS characters that is finalized (by
\* UtteranceEnd or by the safety timer) while a turn of the session is in
\* flight is not lost: the call that found the gate closed is followed, once
\* the turn in flight has returned to idle, by the acceptance of a turn.
C12_GatedUtteranceBecomesNextTurn ==
    (Called /\ last.outcome = "gated") ~> (last.outcome = "accepted")

\* C13: at most one safety timer is pending, and it is the one the variable
\* safetyTimer holds, that is the one armed by the latest final fragment: a
\* timer armed by an earlier fragment was cleared in the step that armed the
\* next one and cannot fire any more.
C13_OneSafetyTimer ==
    /\ Cardinality(timers) <= 1
    /\ timers \subseteq {safetyTimer}

\* a final fragment arrived while the timer of an earlier one was pending:
\* that timer was cleared and a fresh one armed
C13_Witness ==
    /\ last = Step("Transcript", "final", TRUE)
    /\ timers = {safetyTimer}
    /\ Len(utteranceBuffer) > 4

\* C14: interim fragments leave the buffer and the timer alone, and when the
\* fragments since the last boundary were interim ones and then one final
\* one, the expiry of the safety timer hands over the final fragment alone,
\* once, empties the buffer and leaves no timer pending, so that further
\* silence finalizes nothing.
C14_TimerFinalizesFinalFragmentOnce ==
    [][ /\ (last'.op = "Transcript" /\ last'.outcome = "interim") =>
              UNCHANGED <<utteranceBuffer, safetyTimer, timers>>
        /\ (heard = "interim-final" /\ last'.op = "SafetyTimer"
                                    /\ last'.outcome # "empty") =>
              /\ utteranceBuffer \in {<<" ">> \o f : f \in Fragments(env)}
              /\ last'.outcome = "accepted" =>
                     /\ lastUserText' = Tail(utteranceBuffer)
                     /\ nTurns' = nTurns + 1
              /\ callsSinceFinal' = 1
              /\ utteranceBuffer' = <<>>
              /\ timers' = {}
      ]_vars

\* an interim fragment, then the final fragment "yes", then the expiry of the
\* safety timer: "yes" was accepted as a turn and no timer is left
C14_Witness ==
    /\ heard = "interim-final"
    /\ last = Step("SafetyTimer", "accepted", FALSE)
    /\ lastUserText = <<"y", "e", "s">>
    /\ callsSinceFinal = 1
    /\ timers = {}

\* C15: the step that finalizes the utterance, on either path, hands over the
\* whole trimmed buffer and leaves the buffer empty; the buffer changes in no
\* other way than by the appending of one final fragment or by a
\* finalization that empties it, and a finalization that hands nothing over
\* erases white space only.  So no fragment is handed over twice and none is
\* erased short of a finalization.
C15_BufferClearedWithFinalization ==
    [][ /\ Called' =>
              /\ utteranceBuffer' = <<>>
              /\ last'.outcome = "accepted" => lastUserText' = Trim(utteranceBuffer)
        /\ (Finalized' /\ last'.outcome = "empty") => Trim(utteranceBuffer) = <<>>
        /\ (utteranceBuffer' # utteranceBuffer) =>
              \/ /\ last' = Step("Transcript", "final", safetyTimer \in timers)
                 /\ \E f \in Fragments(env) :
                        utteranceBuffer' = utteranceBuffer \o <<" ">> \o f
              \/ /\ Finalized'
                 /\ utteranceBuffer' = <<>>
      ]_vars

\* two final fragments were finalized together by the safety timer, and the
\* buffer is empty in the state the finalization leaves
C15_Witness ==
    /\ last = Step("SafetyTimer", "accepted", FALSE)
    /\ lastUserText = <<"o", "k", " ", "o", "k">>
    /\ utteranceBuffer = <<>>

\* C16: every fragment that arrives while the safety timer is pending, interim
\* or final, resets it: the pending timer is cleared and a fresh one is the
\* only timer pending after the step.
C16_EveryFragmentResetsTimer ==
    [][ (last'.op = "Transcript" /\ last'.outcome \in {"interim", "final"}
                                /\ timers # {}) =>
              /\ timers' = {safetyTimer'}
              /\ safetyTimer' \notin timers
      ]_vars

\* C17: when an UtteranceEnd message is queued and the safety timer is
\* pending for the same utterance, the step that finalizes the utterance is
\* the UtteranceEnd handler, whichever of the two callbacks runs first.
C17_ProviderSignalWinsTie ==
    [][ (utteranceEndQueued /\ timers # {} /\ Trim(utteranceBuffer) # <<>>
                            /\ Finalized') =>
              last'.op = "UtteranceEnd"
      ]_vars

\* C18: final fragments that are too short do not cause a finalization on
\* their own: a buffer whose text is shorter than MIN_CHARS is left as it is
\* by the expiry of the timer that such a fragment armed, and waits for later
\* fragments; what a boundary discards is nothing but a text that is too
\* short or blank, so a text of MIN_CHARS or more is accepted.
C18_ShortFragmentWaitsInBuffer ==
    [][ /\ (last'.op = "SafetyTimer" /\ TooShort(Trim(utteranceBuffer))) =>
              utteranceBuffer' = utteranceBuffer
        /\ (Finalized' /\ ~TooShort(Trim(utteranceBuffer))) =>
              last'.outcome = "accepted"
      ]_vars

\* C19: once the stop event was handled or the media channel has closed, no
\* safety timer of the session is pending (and so none can fire), also when
\* recognition results are delivered after the close.
C19_NoTimerAfterCallEnd == (wsState \in {"stopped", "closed"}) => timers = {}

\* C20: once the stop event was handled or the media channel has closed, the
\* session accepts no new turn and sends no audio to the call, whatever
\* collaborator calls return after that point.
C20_NoTurnNoPlaybackAfterCallEnd ==
    [][ (wsState \in {"stopped", "closed"}) =>
              /\ nTurns' = nTurns
              /\ \A i \in DOMAIN inflight :
                     i \in DOMAIN inflight' =>
                         inflight'[i].delivered = inflight[i].delivered
      ]_vars

\* C26: a turn whose speech synthesis failed (textToSpeech returned null, so
\* the turn ended right after the synthesis) has still delivered audio to the
\* caller.
C26_FallbackAudioDelivered ==
    (last = Step("TtsReturns", "done", FALSE)) => done.delivered >= 1

\* C30: every media frame received so far has been handed to the recognition
\* provider, in the order of arrival, also the frames that arrived while a
\* turn was in flight.
C30_FramesForwardedWhileResponding ==
    dgSent = [i \in 1..framesIn |-> i]

\* two frames arrived, the second one while the reply of a turn was being
\* delivered, and both were forwarded
C30_Witness ==
    /\ last = Step("WsMedia", "responding", FALSE)
    /\ dgSent = <<1, 2>>
    /\ Len(inflight) = 1
    /\ inflight[1].pc = "sendAudioToTwilio"

(***************************************************************************)
(* parseMemoryUpdate on its own: replies with no annotation, with one      *)
(* annotation of up to MaxPairs pairs, and with two annotations, parsed    *)
(* one after the other into the same memory object.                        *)
(***************************************************************************)
FactPairs ==
    {<<k, "=", v>> : k \in {"intent", "budget"}, v \in {"BUY", "RENT", "null"}}

\* pairs that must write nothing: a key the memory does not have, a value
\* that is empty, a pair without "="
OddPairs == {<<"age", "=", "BUY">>, <<"intent", "=">>, <<"intent">>}

\* [MEM: k=v, k=v]
Annotation(pairs) == <<"[MEM:", " ">> \o Join(pairs, ",") \o <<"]">>

ParseReplies ==
    {<<"Great!">>}
    \cup {Annotation(ps) \o <<" ", "Great!">> :
              ps \in UNION {[1..n -> FactPairs] : n \in 1..MaxPairs}}
    \cup {Annotation(<<p>>) \o <<" ", "Great!", " ">> \o Annotation(<<q>>) :
              p \in FactPairs, q \in FactPairs}
    \cup {Annotation(<<p, q>>) \o <<" ", "Great!">> :
              p \in OddPairs, q \in OddPairs \cup {<<"budget", "=", "null">>}}

Parse(fullResponse) ==
    /\ rawReply' = fullResponse
    /\ cleanReply' = parseMemoryUpdate(fullResponse, parseMemory).clean
    /\ parseMemory' = parseMemoryUpdate(fullResponse, parseMemory).memory
    /\ UNCHANGED <<sessionVars, mapVars, sharedVars, speakVars, speechVars>>

ParseInit == Init /\ env = "varied"

ParseNext == \E fullResponse \in ParseReplies : Parse(fullResponse)

ParseSpec == ParseInit /\ [][ParseNext]_vars

\* the pairs of every annotation of a reply, in the order of the text
RECURSIVE AllPairs(_)
AllPairs(r) ==
    IF HasMatch(r)
    THEN Split(MatchGroup(r, MatchStart(r)), ",")
         \o AllPairs(SubSeq(r, MatchClose(r, MatchStart(r)) + 1, Len(r)))
    ELSE <<>>

\* the pair writes key k: its key is k and its value is neither empty nor null
Writes(pair, k) ==
    LET parts == Split(pair, "=")
    IN  /\ Trim(parts[1]) = <<k>>
        /\ Trim(Join(Tail(parts), "=")) \notin {<<>>, <<"null">>}

\* the value of the last pair that writes key k, NULL when none does
RECURSIVE LastWritten(_, _)
LastWritten(pairs, k) ==
    IF pairs = <<>> THEN NULL
    ELSE IF Writes(pairs[Len(pairs)], k)
    THEN Trim(Join(Tail(Split(pairs[Len(pairs)], "=")), "="))
    ELSE LastWritten(SubSeq(pairs, 1, Len(pairs) - 1), k)

\* the pairs of the first annotation of a reply
FirstPairs(r) ==
    IF HasMatch(r) THEN Split(MatchGroup(r, MatchStart(r)), ",") ELSE <<>>

\* C28: applying the update of a reply a second time changes no fact, and
\* after an update every fact holds the value of the last pair of the
\* annotation that writes it, whatever it held before, and its old value
\* when no pair writes it.
C28_UpsertIdempotentLastWriteWins ==
    [][ /\ parseMemoryUpdate(rawReply', parseMemory').memory = parseMemory'
        /\ \A k \in MemoryKeys :
              parseMemory'[k] =
                  IF LastWritten(FirstPairs(rawReply'), k) = NULL
                  THEN parseMemory[k]
                  ELSE LastWritten(FirstPairs(rawReply'), k)
      ]_vars

\* intent was written twice in one annotation, over a value of an earlier
\* reply, and holds the value written last
C28_Witness ==
    /\ rawReply = Annotation(<<<<"intent", "=", "RENT">>, <<"intent", "=", "BUY">>>>)
                      \o <<" ", "Great!">>
    /\ parseMemory.intent = <<"BUY">>
    /\ parseMemory.budget = <<"RENT">>

\* C29: the cleaned reply of every raw reply holds no fact annotation, and
\* the pairs of all the annotations of the raw reply were merged: every
\* fact that one of them writes holds the value written last.
C29_AllAnnotationsMergedAndRemoved ==
    /\ ~HasMatch(cleanReply)
    /\ \A k \in MemoryKeys :
          LastWritten(AllPairs(rawReply), k) # NULL =>
              parseMemory[k] = LastWritten(AllPairs(rawReply), k)

(***************************************************************************)
(* The agent that keeps its histories in a Map keyed by callSid            *)
(* (src/server.js:592-768 with createDeepgramSTT of src/unnamed/part_008). *)
(* One connection is followed.  deepgramWs is "OPEN" from the moment       *)
(* createDeepgramSTT returned the socket, "CLOSING" once close() was       *)
(* called on it, and "CLOSED" when the closing handshake is over; messages *)
(* of the provider are still delivered while it is closing.                *)
(***************************************************************************)
CallSids == {"CA1"}

MapStep(op, outcome) == [op |-> op, outcome |-> outcome]

\* the handle returned by setTimeout in resetSilenceTimer
NewSilenceTimer ==
    CHOOSE id \in 1..(Cardinality(connTimers) + 2) :
        id \notin connTimers /\ id # conn.silenceTimer

\* if (silenceTimer) clearTimeout(silenceTimer)
ClearSilenceTimer == connTimers \ {conn.silenceTimer}

\* a close() that takes effect whatever the state of the socket
Closes_always(readyState) == 1

\* whether deepgramWs?.close() releases the socket: it does on an open one
Closes(readyState) == IF readyState = "OPEN" THEN 1 ELSE 0

\* WebSocket.prototype.close(): no effect on a socket that is closing or closed
CloseSocket(readyState) == IF readyState = "OPEN" THEN "CLOSING" ELSE readyState

\* conversationHistory.delete(callSid); an absent entry is the empty sequence
Deletes(sid) == IF conversationHistoryMap[sid] # <<>> THEN 1 ELSE 0

\* the end of an async callback: the finally block of a turn resets the gate
Settle(i) ==
    /\ suspended' = Remove(suspended, i)
    /\ conn' = IF suspended[i].kind = "turn"
               THEN [conn EXCEPT !.isProcessing = FALSE]
               ELSE conn

(***************************************************************************)
(* ws.on("message"): the start event.                                      *)
(***************************************************************************)
OnStart ==
    /\ ~crashed
    /\ conn.ws = "open"
    /\ conn.callSid = NoSid
    /\ conn' = [conn EXCEPT !.callSid = "CA1", !.deepgramWs = "OPEN",
                            !.silenceTimer = NewSilenceTimer]
    /\ connTimers' = ClearSilenceTimer \cup {NewSilenceTimer}
    /\ mapLast' = MapStep("start", "-")
    /\ UNCHANGED <<conversationHistoryMap, suspended, crashed, released, started>>
    /\ UNCHANGED <<sessionVars, parseVars, sharedVars, speakVars, speechVars>>

(***************************************************************************)
(* The onTranscript callback of connectDeepgram, up to its first await     *)
(* (openai.chat.completions.create inside askGPT).  part_008 calls it for  *)
(* non-empty transcripts only.                                             *)
(***************************************************************************)
OnTranscript(isFinal, long) ==
    /\ ~crashed
    /\ conn.deepgramWs \in {"OPEN", "CLOSING"}
    /\ started.turns < MaxTurnsMap
    /\ connTimers' = ClearSilenceTimer \cup {NewSilenceTimer}
    /\ IF ~isFinal \/ ~long \/ conn.isProcessing
       THEN /\ conn' = [conn EXCEPT !.silenceTimer = NewSilenceTimer]
            /\ mapLast' = MapStep("transcript",
                                  IF conn.isProcessing THEN "gated" ELSE "ignored")
            /\ UNCHANGED <<conversationHistoryMap, suspended, started>>
       ELSE /\ conn' = [conn EXCEPT !.silenceTimer = NewSilenceTimer,
                                    !.isProcessing = TRUE]
            /\ conversationHistoryMap' =
                   [conversationHistoryMap EXCEPT ![conn.callSid] =
                       (IF @ = <<>> THEN <<"system">> ELSE @) \o <<"user">>]
            /\ suspended' = Append(suspended, [kind |-> "turn", pc |-> "askGPT"])
            /\ started' = [started EXCEPT !.turns = @ + 1]
            /\ mapLast' = MapStep("transcript", "accepted")
    /\ UNCHANGED <<crashed, released>>
    /\ UNCHANGED <<sessionVars, parseVars, sharedVars, speakVars, speechVars>>

(***************************************************************************)
(* The callback of the silence timer, up to its first await (speak).       *)
(***************************************************************************)
SilenceTimerFires(id) ==
    /\ ~crashed
    /\ id \in connTimers
    /\ connTimers' = connTimers \ {id}
    /\ IF conn.callSid = NoSid \/ conn.isProcessing
       THEN /\ mapLast' = MapStep("silence", "skipped")
            /\ UNCHANGED <<suspended, started>>
       ELSE /\ started.checkins < MaxCheckins
            /\ suspended' = Append(suspended, [kind |-> "checkin", pc |-> "speak"])
            /\ started' = [started EXCEPT !.checkins = @ + 1]
            /\ mapLast' = MapStep("silence", "checkin")
    /\ UNCHANGED <<conn, conversationHistoryMap, crashed, released>>
    /\ UNCHANGED <<sessionVars, parseVars, sharedVars, speakVars, speechVars>>

(***************************************************************************)
(* askGPT resumed after its await: the reply is pushed to the array that   *)
(* askGPT took from the Map (an array that was deleted from the Map        *)
(* meanwhile is no longer seen), or the request threw and the turn ends in *)
(* its catch and finally blocks.                                           *)
(***************************************************************************)
AskGptReturns(i, ok) ==
    /\ ~crashed
    /\ i \in 1..Len(suspended)
    /\ suspended[i].pc = "askGPT"
    /\ IF ok
       THEN /\ conversationHistoryMap' =
                   [conversationHistoryMap EXCEPT ![conn.callSid] =
                       IF @ = <<>> THEN @ ELSE @ \o <<"assistant">>]
            /\ suspended' = [suspended EXCEPT ![i].pc = "speak"]
            /\ mapLast' = MapStep("askGPT", "ok")
            /\ UNCHANGED conn
       ELSE /\ Settle(i)
            /\ mapLast' = MapStep("askGPT", "failed")
            /\ UNCHANGED conversationHistoryMap
    /\ UNCHANGED <<connTimers, crashed, released, started>>
    /\ UNCHANGED <<sessionVars, parseVars, sharedVars, speakVars, speechVars>>

(***************************************************************************)
(* await speak(...) of a turn or of a check-in returns the audio URL or    *)
(* throws (both providers failed).                                         *)
(***************************************************************************)
SpeakReturns(i, ok) ==
    /\ ~crashed
    /\ i \in 1..Len(suspended)
    /\ suspended[i].pc = "speak"
    /\ IF ok
       THEN /\ suspended' = [suspended EXCEPT ![i].pc = "update"]
            /\ mapLast' = MapStep("speak", "ok")
            /\ UNCHANGED conn
       ELSE /\ Settle(i)
            /\ mapLast' = MapStep("speak", "failed")
    /\ UNCHANGED <<connTimers, conversationHistoryMap, crashed, released, started>>
    /\ UNCHANGED <<sessionVars, parseVars, sharedVars, speakVars, speechVars>>

(***************************************************************************)
(* await twilioClient.calls(callSid).update(...) returns or throws; the    *)
(* catch block logs the error.                                             *)
(***************************************************************************)
CallUpdateReturns(i, ok) ==
    /\ ~crashed
    /\ i \in 1..Len(suspended)
    /\ suspended[i].pc = "update"
    /\ Settle(i)
    /\ mapLast' = MapStep(IF suspended[i].kind = "turn" THEN "update" ELSE "checkinUpdate",
                        IF ok THEN "played" ELSE "failed")
    /\ UNCHANGED <<connTimers, conversationHistoryMap, crashed, released, started>>
    /\ UNCHANGED <<sessionVars, parseVars, sharedVars, speakVars, speechVars>>

(***************************************************************************)
(* ws.on("message"): the stop event.                                       *)
(***************************************************************************)
OnStop ==
    /\ ~crashed
    /\ conn.ws = "open"
    /\ conn.callSid # NoSid
    /\ connTimers' = ClearSilenceTimer
    /\ conversationHistoryMap' = [conversationHistoryMap EXCEPT ![conn.callSid] = <<>>]
    /\ conn' = [conn EXCEPT !.ws = "stopped", !.deepgramWs = CloseSocket(@)]
    /\ released' = [history    |-> released.history + Deletes(conn.callSid),
                    deepgramWs |-> released.deepgramWs + Closes(conn.deepgramWs)]
    /\ mapLast' = MapStep("stop", "-")
    /\ UNCHANGED <<suspended, crashed, started>>
    /\ UNCHANGED <<sessionVars, parseVars, sharedVars, speakVars, speechVars>>

(***************************************************************************)
(* ws.on("close").                                                         *)
(***************************************************************************)
OnClose ==
    /\ ~crashed
    /\ conn.ws # "closed"
    /\ connTimers' = ClearSilenceTimer
    /\ conn' = [conn EXCEPT !.ws = "closed", !.deepgramWs = CloseSocket(@)]
    /\ released' = [released EXCEPT
                        !.deepgramWs = @ + Closes(conn.deepgramWs)]
    /\ mapLast' = MapStep("close", mapLast.op)
    /\ UNCHANGED <<conversationHistoryMap, suspended, crashed, started>>
    /\ UNCHANGED <<sessionVars, parseVars, sharedVars, speakVars, speechVars>>

(***************************************************************************)
(* ws.on("message") with a payload that is not JSON: JSON.parse throws     *)
(* out of the listener, and the program installs no handler for uncaught   *)
(* exceptions.                                                             *)
(***************************************************************************)
OnMalformedMessage ==
    /\ ~crashed
    /\ conn.ws # "closed"
    /\ crashed' = TRUE
    /\ mapLast' = MapStep("message", "malformed")
    /\ UNCHANGED <<conn, connTimers, conversationHistoryMap, suspended, released,
                   started>>
    /\ UNCHANGED <<sessionVars, parseVars, sharedVars, speakVars, speechVars>>

(***************************************************************************)
(* dgWs.on("message") of createDeepgramSTT with a payload that is not      *)
(* JSON: JSON.parse throws out of the listener as well.                    *)
(***************************************************************************)
OnMalformedProviderMessage ==
    /\ ~crashed
    /\ conn.deepgramWs \in {"OPEN", "CLOSING"}
    /\ crashed' = TRUE
    /\ mapLast' = MapStep("providerMessage", "malformed")
    /\ UNCHANGED <<conn, connTimers, conversationHistoryMap, suspended, released,
                   started>>
    /\ UNCHANGED <<sessionVars, parseVars, sharedVars, speakVars, speechVars>>

\* the closing handshake of the provider socket is over
DeepgramClosed ==
    /\ ~crashed
    /\ conn.deepgramWs = "CLOSING"
    /\ conn' = [conn EXCEPT !.deepgramWs = "CLOSED"]
    /\ mapLast' = MapStep("providerClosed", "-")
    /\ UNCHANGED <<connTimers, conversationHistoryMap, suspended, crashed, released,
                   started>>
    /\ UNCHANGED <<sessionVars, parseVars, sharedVars, speakVars, speechVars>>

MapInit == Init /\ env = "varied"

MapNext ==
    \/ OnStart
    \/ \E isFinal \in BOOLEAN, long \in BOOLEAN : OnTranscript(isFinal, long)
    \/ \E id \in connTimers : SilenceTimerFires(id)
    \/ \E i \in 1..Len(suspended), ok \in BOOLEAN : AskGptReturns(i, ok)
    \/ \E i \in 1..Len(suspended), ok \in BOOLEAN : SpeakReturns(i, ok)
    \/ \E i \in 1..Len(suspended), ok \in BOOLEAN : CallUpdateReturns(i, ok)
    \/ OnStop
    \/ OnClose
    \/ OnMalformedMessage
    \/ OnMalformedProviderMessage
    \/ DeepgramClosed

MapSpec == MapInit /\ [][MapNext]_vars

C23_AtMostOneReplyInFlight == Len(suspended) <= 1

(***************************************************************************)
(* C24: a message that cannot be parsed, from the media source or from the *)
(* recognition provider, is dropped: no uncaught error is raised.          *)
(***************************************************************************)
C24_MalformedMessageDropped == mapLast.outcome = "malformed" => ~crashed

(***************************************************************************)
(* C25: when the playback update of a turn has failed the connection is    *)
(* closing: its silence timer is cancelled and the provider socket is      *)
(* being closed.                                                           *)
(***************************************************************************)
C25_UpdateFailureClosesSession ==
    mapLast = MapStep("update", "failed") =>
        /\ connTimers = {}
        /\ conn.deepgramWs \in {"CLOSING", "CLOSED"}

(***************************************************************************)
(* The agent that answers through the global CURRENT_CALL_SID              *)
(* (src/unnamed/part_000:514-728), serving two calls.  The media stream of *)
(* a call is opened by the TwiML that /gather-response returns for it.     *)
(***************************************************************************)
Calls == {"CA1", "CA2"}

SharedStep(op, c) == [op |-> op, call |-> c]

\* app.post('/gather-response') for call c
GatherResponse(c) ==
    /\ streams[c].stage = "ringing"
    /\ CURRENT_CALL_SID' = c
    /\ streams' = [streams EXCEPT ![c].stage = "gathered"]
    /\ sharedLast' = SharedStep("gather", c)
    /\ UNCHANGED playbackUpdates
    /\ UNCHANGED <<sessionVars, parseVars, mapVars, speakVars, speechVars>>

\* wss.on('connection') for the media stream of call c
StreamConnection(c) ==
    /\ streams[c].stage = "gathered"
    /\ streams' = [streams EXCEPT ![c].stage = "connected",
                                  ![c].hasReplied = FALSE,
                                  ![c].dgReady = FALSE,
                                  ![c].queued = <<>>]
    /\ sharedLast' = SharedStep("connection", c)
    /\ UNCHANGED <<CURRENT_CALL_SID, playbackUpdates>>
    /\ UNCHANGED <<sessionVars, parseVars, mapVars, speakVars, speechVars>>

\* a loop that takes the frames from the end of the queue, with pop
PopAll(q) == [i \in 1..Len(q) |-> q[Len(q) + 1 - i]]

\* while (audioQueue.length > 0) dgConnection.send(audioQueue.shift()): the
\* i-th frame sent by the loop is the one that is i-th in the queue
ShiftAll(q) == [i \in 1..Len(q) |-> q[i]]

\* dgConnection.on(Open): dgReady = true, then the queued audio is sent from
\* the front of the queue
DgOpen(c) ==
    /\ streams[c].stage = "connected"
    /\ ~streams[c].dgReady
    /\ streams' = [streams EXCEPT ![c].dgReady = TRUE,
                                  ![c].sent = @ \o ShiftAll(streams[c].queued),
                                  ![c].flushed = Len(streams[c].queued),
                                  ![c].queued = <<>>]
    /\ sharedLast' = SharedStep("open", c)
    /\ UNCHANGED <<CURRENT_CALL_SID, playbackUpdates>>
    /\ UNCHANGED <<sessionVars, parseVars, mapVars, speakVars, speechVars>>

\* ws.on('message') with a media event
StreamMedia(c) ==
    /\ streams[c].stage = "connected"
    /\ streams[c].received < MaxStreamFrames
    /\ streams' = [streams EXCEPT
                      ![c].received = @ + 1,
                      ![c].sent = IF streams[c].dgReady
                                  THEN Append(@, streams[c].received + 1) ELSE @,
                      ![c].queued = IF streams[c].dgReady
                                    THEN @ ELSE Append(@, streams[c].received + 1)]
    /\ sharedLast' = SharedStep("media", c)
    /\ UNCHANGED <<CURRENT_CALL_SID, playbackUpdates>>
    /\ UNCHANGED <<sessionVars, parseVars, mapVars, speakVars, speechVars>>

\* dgConnection.on(Transcript), up to its await of the completion; long
\* says that the transcript has four characters or more
StreamTranscript(c, long) ==
    /\ streams[c].stage \in {"connected", "stopped"}
    /\ streams[c].dgReady
    /\ IF ~long \/ streams[c].hasReplied
       THEN /\ sharedLast' = SharedStep("transcriptIgnored", c)
            /\ UNCHANGED streams
       ELSE /\ streams' = [streams EXCEPT ![c].hasReplied = TRUE,
                                          ![c].pc = "openai"]
            /\ sharedLast' = SharedStep("transcript", c)
    /\ UNCHANGED <<CURRENT_CALL_SID, playbackUpdates>>
    /\ UNCHANGED <<sessionVars, parseVars, mapVars, speakVars, speechVars>>

\* the completion returns or throws; on a reply the callback reads
\* CURRENT_CALL_SID and starts the update of that call
CompletionReturns(c, ok) ==
    /\ streams[c].pc = "openai"
    /\ IF ok /\ CURRENT_CALL_SID # NoSid
       THEN /\ playbackUpdates' =
                   Append(playbackUpdates,
                          [stream |-> c, target |-> CURRENT_CALL_SID])
            /\ streams' = [streams EXCEPT ![c].pc = "update"]
            /\ sharedLast' = SharedStep("completion", c)
       ELSE /\ streams' = [streams EXCEPT ![c].pc = "done"]
            /\ sharedLast' = SharedStep("completionDropped", c)
            /\ UNCHANGED playbackUpdates
    /\ UNCHANGED CURRENT_CALL_SID
    /\ UNCHANGED <<sessionVars, parseVars, mapVars, speakVars, speechVars>>

\* await twilioClient.calls(CURRENT_CALL_SID).update(...) returns or throws
PlaybackUpdateReturns(c, ok) ==
    /\ streams[c].pc = "update"
    /\ streams' = [streams EXCEPT ![c].pc = "done"]
    /\ sharedLast' = SharedStep(IF ok THEN "updated" ELSE "updateFailed", c)
    /\ UNCHANGED <<CURRENT_CALL_SID, playbackUpdates>>
    /\ UNCHANGED <<sessionVars, parseVars, mapVars, speakVars, speechVars>>

\* ws.on('message') with the stop event: dgConnection.finish()
StreamStop(c) ==
    /\ streams[c].stage = "connected"
    /\ streams' = [streams EXCEPT ![c].stage = "stopped"]
    /\ sharedLast' = SharedStep("stop", c)
    /\ UNCHANGED <<CURRENT_CALL_SID, playbackUpdates>>
    /\ UNCHANGED <<sessionVars, parseVars, mapVars, speakVars, speechVars>>

\* ws.on('close'): dgConnection.finish()
StreamClose(c) ==
    /\ streams[c].stage \in {"connected", "stopped"}
    /\ streams' = [streams EXCEPT ![c].stage = "closed"]
    /\ sharedLast' = SharedStep("close", c)
    /\ UNCHANGED <<CURRENT_CALL_SID, playbackUpdates>>
    /\ UNCHANGED <<sessionVars, parseVars, mapVars, speakVars, speechVars>>

SharedInit == Init /\ env = "varied"

SharedNext ==
    \E c \in Calls :
        \/ GatherResponse(c)
        \/ StreamConnection(c)
        \/ DgOpen(c)
        \/ StreamMedia(c)
        \/ \E long \in BOOLEAN : StreamTranscript(c, long)
        \/ \E ok \in BOOLEAN : CompletionReturns(c, ok)
        \/ \E ok \in BOOLEAN : PlaybackUpdateReturns(c, ok)
        \/ StreamStop(c)
        \/ StreamClose(c)

SharedSpec == SharedInit /\ [][SharedNext]_vars

(***************************************************************************)
(* C22: sessions share no mutable state: every playback update made by the *)
(* stream of a call targets that call.                                     *)
(***************************************************************************)
C22_UpdatesTargetOwnCall ==
    \A i \in 1..Len(playbackUpdates) :
        playbackUpdates[i].target = playbackUpdates[i].stream

(***************************************************************************)
(* speak(text, ctx) of src/services/tts.service.js:29-53: Deepgram Aura is *)
(* the primary provider and Google the fallback.  A text is a sequence of  *)
(* characters, a blank or a letter; the empty sequence also stands for a   *)
(* text that is null or undefined.                                         *)
(***************************************************************************)
SpeakChars == {" ", "a"}

SpeakTexts == UNION {[1..n -> SpeakChars] : n \in 0..MaxTextLen}

\* !text || !text.trim()
Blank(text) == text = <<>> \/ Trim(text) = <<>>

Url(provider) == [kind |-> "url", by |-> provider]

Thrown(by) == [kind |-> "error", by |-> by]

\* speak is called: the check of the text, then the call of deepgramTTS
SpeakCall(text) ==
    /\ speakPc \in {"idle", "returned", "thrown"}
    /\ speakCount < MaxSpeakCalls
    /\ speakCount' = speakCount + 1
    /\ speakText' = text
    /\ providerFailed' = {}
    /\ IF Blank(text)
       THEN /\ speakPc' = "thrown"
            /\ speakOutcome' = Thrown("speak")
            /\ providerCalls' = <<>>
       ELSE /\ speakPc' = "deepgramTTS"
            /\ speakOutcome' = [kind |-> "none", by |-> "-"]
            /\ providerCalls' = <<"deepgram">>
    /\ UNCHANGED <<sessionVars, parseVars, mapVars, sharedVars, speechVars>>

\* a primary provider that is never followed by the fallback
DeepgramTTSReturns_noFallback(ok) ==
    /\ speakPc = "deepgramTTS"
    /\ IF ok
       THEN /\ speakPc' = "returned"
            /\ speakOutcome' = Url("deepgram")
            /\ UNCHANGED providerFailed
       ELSE /\ speakPc' = "thrown"
            /\ speakOutcome' = Thrown("deepgram")
            /\ providerFailed' = providerFailed \cup {"deepgram"}
    /\ UNCHANGED <<speakText, providerCalls, speakCount>>
    /\ UNCHANGED <<sessionVars, parseVars, mapVars, sharedVars, speechVars>>

\* await deepgramTTS(...) returns the URL, which speak returns, or throws:
\* the catch block logs and speak goes on to call googleTTS
DeepgramTTSReturns(ok) ==
    /\ speakPc = "deepgramTTS"
    /\ IF ok
       THEN /\ speakPc' = "returned"
            /\ speakOutcome' = Url("deepgram")
            /\ UNCHANGED <<providerFailed, providerCalls>>
       ELSE /\ speakPc' = "googleTTS"
            /\ providerFailed' = providerFailed \cup {"deepgram"}
            /\ providerCalls' = Append(providerCalls, "google")
            /\ UNCHANGED speakOutcome
    /\ UNCHANGED <<speakText, speakCount>>
    /\ UNCHANGED <<sessionVars, parseVars, mapVars, sharedVars, speechVars>>

\* await googleTTS(...) returns the URL or throws out of speak; googleTTS
\* itself throws on a blank text
GoogleTTSReturns(ok) ==
    /\ speakPc = "googleTTS"
    /\ IF ok /\ ~Blank(speakText)
       THEN /\ speakPc' = "returned"
            /\ speakOutcome' = Url("google")
            /\ UNCHANGED providerFailed
       ELSE /\ speakPc' = "thrown"
            /\ speakOutcome' = Thrown("google")
            /\ providerFailed' = providerFailed \cup {"google"}
    /\ UNCHANGED <<speakText, providerCalls, speakCount>>
    /\ UNCHANGED <<sessionVars, parseVars, mapVars, sharedVars, speechVars>>

SpeakInit == Init /\ env = "varied"

SpeakNext ==
    \/ \E text \in SpeakTexts : SpeakCall(text)
    \/ \E ok \in BOOLEAN : DeepgramTTSReturns(ok)
    \/ \E ok \in BOOLEAN : GoogleTTSReturns(ok)

SpeakSpec == SpeakInit /\ [][SpeakNext]_vars

\* speak has returned or thrown
SpeakSettled == speakPc \in {"returned", "thrown"}

\* the fallback was called if and only if the primary failed, and a URL
\* returned is the one of the first provider that succeeded
FallbackIffPrimaryFailed ==
    /\ (\E i \in 1..Len(providerCalls) : providerCalls[i] = "google") <=> ("deepgram" \in providerFailed)
    /\ speakOutcome.kind = "url" =>
           /\ speakOutcome.by = providerCalls[Len(providerCalls)]
           /\ speakOutcome.by \notin providerFailed
           /\ \A i \in 1..(Len(providerCalls) - 1) : providerCalls[i] \in providerFailed
    /\ speakOutcome = Url("deepgram") => providerCalls = <<"deepgram">>

C31_MemoryChangesOnlyAfterSuccess ==
    [][ (conversationHistory' # conversationHistory \/ memory' # memory) =>
            last' = Step("GptReturns", "ok", FALSE) ]_vars


(***************************************************************************)
(* C32: the text handed to the turn processor is the final fragments       *)
(* received since the last processed turn, joined in the order of their    *)
(* arrival.  Step by step: the buffer grows by a final fragment appended   *)
(* at its end and by nothing else, an interim fragment leaves it as it is, *)
(* an accepted call takes the whole trimmed buffer, and a text is erased   *)
(* from the buffer only by the step that has it accepted as a turn, so     *)
(* that no final fragment is missing from the next text handed over.       *)
(***************************************************************************)
C32_HandedTextIsFinalsSinceLastTurn ==
    [][ /\ (last'.op = "Transcript" /\ last'.outcome = "final") =>
              \E f \in Fragments(env) :
                  utteranceBuffer' = utteranceBuffer \o <<" ">> \o f
        /\ (last'.op = "Transcript" /\ last'.outcome # "final") =>
              utteranceBuffer' = utteranceBuffer
        /\ (Called' /\ last'.outcome = "accepted") =>
              lastUserText' = Trim(utteranceBuffer)
        /\ (Trim(utteranceBuffer) # <<>> /\ utteranceBuffer' # utteranceBuffer
                                        /\ last'.op # "Transcript") =>
              last'.outcome = "accepted"
      ]_vars


(***************************************************************************)
(* C33: in the agents that queue audio until the recognition connection    *)
(* opens, the frames received before the Open event are sent once each     *)
(* after it, in the order of their arrival and before any later frame:     *)
(* nothing is sent before the Open event, nothing is queued after it, and  *)
(* the frames sent followed by the frames still queued are the frames      *)
(* received, in order.                                                     *)
(***************************************************************************)
C33_QueuedFramesFlushedInOrder ==
    \A c \in Calls :
        /\ streams[c].sent \o streams[c].queued = [i \in 1..streams[c].received |-> i]
        /\ streams[c].dgReady => streams[c].queued = <<>>
        /\ ~streams[c].dgReady => streams[c].sent = <<>>
        /\ streams[c].flushed <= Len(streams[c].sent)

\* two frames were queued and sent by the Open handler
C33_Witness ==
    \E c \in Calls :
        /\ streams[c].dgReady
        /\ streams[c].flushed = 2
        /\ streams[c].sent = <<1, 2>>


(***************************************************************************)
(* C34: once the stop event has removed the entry of the call from the Map *)
(* of histories, the Map holds no entry for that call.                     *)
(***************************************************************************)
C34_NoHistoryAfterStop ==
    conn.ws = "stopped" => conversationHistoryMap[conn.callSid] = <<>>


\* the system preamble followed by caller and reply entries in turn, every
\* caller entry with its reply
Alternates(h) ==
    /\ Len(h) % 2 = 1
    /\ \A i \in 1..Len(h) :
           h[i] = IF i = 1 THEN "system"
                  ELSE IF i % 2 = 0 THEN "user" ELSE "assistant"

(***************************************************************************)
(* C35: after every completed turn of the Map-keyed agent the history of   *)
(* the call is the system preamble followed by strictly alternating caller *)
(* and reply entries.                                                      *)
(***************************************************************************)
C35_MapHistoryAlternates ==
    ~conn.isProcessing =>
        \A sid \in CallSids :
            conversationHistoryMap[sid] # <<>> => Alternates(conversationHistoryMap[sid])


(***************************************************************************)
(* C36: whenever the session is idle its history has an even number of     *)
(* entries, caller and reply entries in turn, beginning with a caller      *)
(* entry.                                                                  *)
(***************************************************************************)
C36_IdleHistoryAlternates ==
    ~isProcessing =>
        /\ Len(conversationHistory) % 2 = 0
        /\ \A i \in 1..Len(conversationHistory) :
               conversationHistory[i].role =
                   IF i % 2 = 1 THEN "user" ELSE "assistant"

\* the session is idle again after two turns, the second of which failed and
\* logged the fallback reply
C36_Witness ==
    /\ ~isProcessing
    /\ Len(conversationHistory) = 4
    /\ done.gptFailed
    /\ conversationHistory[4].content = FALLBACK


(***************************************************************************)
(* C37: the keys of the fact memory are those it was created with:         *)
(* parseMemoryUpdate adds no key and ignores a pair whose key the memory   *)
(* does not have; it never writes an empty value or "null", so a fact that *)
(* is set stays set, and a fact changes only to the value of a pair that   *)
(* names it.                                                               *)
(***************************************************************************)
C37_MemoryKeysFixed ==
    [][ /\ DOMAIN parseMemory' = MemoryKeys
        /\ \A k \in MemoryKeys :
              /\ parseMemory[k] # NULL => parseMemory'[k] # NULL
              /\ parseMemory'[k] # <<"null">>
              /\ parseMemory'[k] # parseMemory[k] =>
                     \E i \in 1..Len(FirstPairs(rawReply')) :
                         Writes(FirstPairs(rawReply')[i], k)
      ]_vars

\* an annotation with a key the memory does not have and with an empty value
\* for intent was parsed, and the intent set by an earlier reply is still there
C37_Witness ==
    /\ rawReply = Annotation(<<<<"age", "=", "BUY">>, <<"intent", "=">>>>)
                      \o <<" ", "Great!">>
    /\ cleanReply = <<"Great!">>
    /\ parseMemory.intent = <<"BUY">>
    /\ DOMAIN parseMemory = MemoryKeys


(***************************************************************************)
(* C38: isSpeaking is true only while a turn is in flight: isSpeaking      *)
(* implies isProcessing, and both are false whenever no turn is in flight. *)
(***************************************************************************)
C38_SpeakingOnlyWhileProcessing ==
    /\ isSpeaking => isProcessing /\ inflight # <<>>
    /\ inflight = <<>> => ~isProcessing /\ ~isSpeaking

\* the caller interrupted the agent while the audio of a turn was being sent
C38_Witness ==
    /\ last = Step("SpeechStarted", "interrupted", FALSE)
    /\ isProcessing
    /\ ~isSpeaking
    /\ \E i \in 1..Len(inflight) : inflight[i].pc = "sendAudioToTwilio"

(***************************************************************************)
(* The agent that finds the end of speech by the energy of the audio       *)
(* (src/unnamed/part_003:216-366).  A chunk of the model is a run of       *)
(* frames of 20 ms that detectSilence classifies alike and that are        *)
(* handled one after the other; the handler's decisions are those it takes *)
(* at the last frame of the run.  Whether more than SILENCE_DURATION has   *)
(* passed since lastSpeechTime is an input of the step.                    *)
(***************************************************************************)
MIN_SPEECH_DURATION == 500

\* lengths of the runs followed, in frames
FrameRuns == {1, 30}

SpeechStep(op, outcome) == [op |-> op, outcome |-> outcome]

ChunkIds(chunks) == {chunks[i].id : i \in 1..Len(chunks)}

\* audioChunks.length * 20, counted in frames
RECURSIVE TotalAudioDuration(_)
TotalAudioDuration(chunks) ==
    IF chunks = <<>> THEN 0
    ELSE 20 * chunks[1].frames + TotalAudioDuration(Tail(chunks))

\* a processUserSpeech that empties the audio buffer only when it is done
processUserSpeech_keepsChunks(chunks, ws) ==
    /\ speech' = [speech EXCEPT !.processing = TRUE,
                               !.audioChunks = chunks,
                               !.pc = "deepgramSTT",
                               !.ws = ws,
                               !.received = speech.received +
                                   (Len(chunks) - Len(speech.audioChunks))]
    /\ speechLog' = [speechLog EXCEPT !.requests = Append(@, ChunkIds(chunks))]

\* processUserSpeech() called by the handler of an event that found the audio
\* buffer holding chunks and leaves the socket in state ws, up to its await of
\* deepgramSTT: the flag, Buffer.concat and audioChunks = []
processUserSpeech(chunks, ws) ==
    /\ speech' = [speech EXCEPT !.processing = TRUE,
                               !.audioChunks = <<>>,
                               !.pc = "deepgramSTT",
                               !.ws = ws,
                               !.received = speech.received +
                                   (Len(chunks) - Len(speech.audioChunks))]
    /\ speechLog' = [speechLog EXCEPT !.requests = Append(@, ChunkIds(chunks))]

\* ws.on("message"): the start event
SpeechStart ==
    /\ speech.ws = "open"
    /\ speech.callSid = NoSid
    /\ speech' = [speech EXCEPT !.callSid = "CA1", !.audioChunks = <<>>,
                               !.isSpeaking = FALSE, !.history = <<>>,
                               !.processing = FALSE]
    /\ speechLast' = SpeechStep("start", "-")
    /\ UNCHANGED speechLog
    /\ UNCHANGED <<sessionVars, parseVars, mapVars, sharedVars, speakVars>>

\* ws.on("message"): media events of a started call, up to the await of
\* processUserSpeech
SpeechMedia(frames, isSilent, longSilence) ==
    /\ speech.ws = "open"
    /\ speech.callSid # NoSid
    /\ speech.received < MaxChunks
    /\ LET chunk  == [id |-> speech.received + 1, frames |-> frames]
           pushed == Append(speech.audioChunks, chunk)
       IN  IF ~isSilent /\ ~speech.isSpeaking
           THEN /\ speech' = [speech EXCEPT !.audioChunks = pushed,
                                           !.isSpeaking = TRUE,
                                           !.received = @ + 1]
                /\ speechLog' = [speechLog EXCEPT !.arrivedInFlight =
                                    IF speech.processing THEN @ \cup {chunk.id} ELSE @]
                /\ speechLast' = SpeechStep("media", "speechStarted")
           ELSE IF isSilent /\ speech.isSpeaking /\ longSilence /\ ~speech.processing
           THEN IF TotalAudioDuration(pushed) > MIN_SPEECH_DURATION
                THEN /\ processUserSpeech(pushed, speech.ws)
                     /\ speechLast' = SpeechStep("media", "processUserSpeech")
                ELSE /\ speech' = [speech EXCEPT !.audioChunks = <<>>,
                                                !.isSpeaking = FALSE,
                                                !.received = @ + 1]
                     /\ speechLog' = [speechLog EXCEPT !.discarded =
                                         @ \cup ChunkIds(pushed)]
                     /\ speechLast' = SpeechStep("media", "tooShort")
           ELSE /\ speech' = [speech EXCEPT !.audioChunks = pushed,
                                           !.received = @ + 1]
                /\ speechLog' = [speechLog EXCEPT !.arrivedInFlight =
                                    IF speech.processing THEN @ \cup {chunk.id} ELSE @]
                /\ speechLast' = SpeechStep("media", "buffered")
    /\ UNCHANGED <<sessionVars, parseVars, mapVars, sharedVars, speakVars>>

\* ws.on("message"): the stop event, up to the await of processUserSpeech
SpeechStop ==
    /\ speech.ws = "open"
    /\ speech.callSid # NoSid
    /\ IF speech.audioChunks # <<>> /\ ~speech.processing
       THEN /\ processUserSpeech(speech.audioChunks, "stopped")
            /\ speechLast' = SpeechStep("stop", "processUserSpeech")
       ELSE /\ speech' = [speech EXCEPT !.ws = "stopped"]
            /\ speechLast' = SpeechStep("stop", "-")
            /\ UNCHANGED speechLog
    /\ UNCHANGED <<sessionVars, parseVars, mapVars, sharedVars, speakVars>>

\* ws.on("close"): clearTimeout(silenceTimer), no request is cancelled
SpeechClose ==
    /\ speech.ws # "closed"
    /\ speech' = [speech EXCEPT !.ws = "closed"]
    /\ speechLast' = SpeechStep("close", "-")
    /\ UNCHANGED speechLog
    /\ UNCHANGED <<sessionVars, parseVars, mapVars, sharedVars, speakVars>>

\* the end of processUserSpeech: processing = false, isSpeaking = false
SpeechFinally ==
    speech' = [speech EXCEPT !.processing = FALSE, !.isSpeaking = FALSE,
                            !.pc = "none"]

\* await deepgramSTT(audioBuffer) returns the transcript, or "" when the
\* request failed
SttReturns(transcript) ==
    /\ speech.pc = "deepgramSTT"
    /\ IF Trim(transcript) = <<>>
       THEN /\ SpeechFinally
            /\ speechLast' = SpeechStep("deepgramSTT", "empty")
       ELSE /\ speech' = [speech EXCEPT !.history = Append(@, "user"),
                                       !.pc = "askGPT"]
            /\ speechLast' = SpeechStep("deepgramSTT", "transcript")
    /\ UNCHANGED speechLog
    /\ UNCHANGED <<sessionVars, parseVars, mapVars, sharedVars, speakVars>>

\* await askGPT(...) returns the reply or throws
SpeechGptReturns(ok) ==
    /\ speech.pc = "askGPT"
    /\ IF ok
       THEN /\ speech' = [speech EXCEPT !.history = Append(@, "assistant"),
                                       !.pc = "deepgramTTS"]
            /\ speechLast' = SpeechStep("askGPT", "ok")
       ELSE /\ SpeechFinally
            /\ speechLast' = SpeechStep("askGPT", "error")
    /\ UNCHANGED speechLog
    /\ UNCHANGED <<sessionVars, parseVars, mapVars, sharedVars, speakVars>>

\* await deepgramTTS(...) returns the URL, or null and processUserSpeech throws
SpeechTtsReturns(ok) ==
    /\ speech.pc = "deepgramTTS"
    /\ IF ok
       THEN /\ speech' = [speech EXCEPT !.pc = "update"]
            /\ speechLast' = SpeechStep("deepgramTTS", "ok")
       ELSE /\ SpeechFinally
            /\ speechLast' = SpeechStep("deepgramTTS", "error")
    /\ UNCHANGED speechLog
    /\ UNCHANGED <<sessionVars, parseVars, mapVars, sharedVars, speakVars>>

\* await twilioClient.calls(callSid).update(...) returns or throws
SpeechUpdateReturns(ok) ==
    /\ speech.pc = "update"
    /\ SpeechFinally
    /\ speechLast' = SpeechStep("update", IF ok THEN "played" ELSE "error")
    /\ UNCHANGED speechLog
    /\ UNCHANGED <<sessionVars, parseVars, mapVars, sharedVars, speakVars>>

SpeechInit == Init /\ env = "varied"

SpeechNext ==
    \/ SpeechStart
    \/ \E frames \in FrameRuns, isSilent \in BOOLEAN, longSilence \in BOOLEAN :
           SpeechMedia(frames, isSilent, longSilence)
    \/ SpeechStop
    \/ SpeechClose
    \/ \E transcript \in {<<>>, <<"hello">>} : SttReturns(transcript)
    \/ \E ok \in BOOLEAN : SpeechGptReturns(ok)
    \/ \E ok \in BOOLEAN : SpeechTtsReturns(ok)
    \/ \E ok \in BOOLEAN : SpeechUpdateReturns(ok)

SpeechSpec == SpeechInit /\ [][SpeechNext]_vars


(***************************************************************************)
(* C39: processUserSpeech is single-flight and consumes the audio buffer   *)
(* atomically.                                                             *)
(***************************************************************************)
\* the chunks of the audio buffer
Buffered == ChunkIds(speech.audioChunks)

\* the chunks sent to transcription by the requests made so far
Requested == UNION {speechLog.requests[i] : i \in 1..Len(speechLog.requests)}

\* a request is in flight exactly while the processing flag is set, no chunk
\* is in two requests, and no chunk is both sent and still buffered
SingleFlight ==
    /\ speech.processing <=> speech.pc # "none"
    /\ \A i, j \in 1..Len(speechLog.requests) :
           i # j => speechLog.requests[i] \cap speechLog.requests[j] = {}
    /\ Buffered \cap Requested = {}

\* C39 as stated: every buffered chunk is sent in at most one request, the
\* processing flag is false after every invocation, and every chunk that
\* arrived while a request was in flight is still buffered or went into a
\* later request
C39_InFlightChunksKept ==
    /\ SingleFlight
    /\ speechLog.arrivedInFlight \subseteq Buffered \cup Requested

\* C39 amended: every buffered chunk is sent in at most one request, the
\* processing flag is false after every invocation, a request takes the whole
\* buffer and empties it in the same step, while a request is in flight the
\* buffer only grows and nothing is discarded, and a chunk that arrived in
\* flight is buffered, in a later request, or was discarded as too short
\* when no request was in flight
C39_InFlightChunksKeptUntilIdle ==
    [][ /\ SingleFlight'
        /\ speechLog.arrivedInFlight' \subseteq
               Buffered' \cup Requested' \cup speechLog.discarded'
        /\ speechLog.requests' # speechLog.requests =>
               /\ ~speech.processing
               /\ Buffered \subseteq speechLog.requests'[Len(speechLog.requests')]
               /\ speech.audioChunks' = <<>>
        /\ speech.processing =>
               /\ speechLog.discarded' = speechLog.discarded
               /\ speechLog.requests' = speechLog.requests
               /\ Len(speech.audioChunks') >= Len(speech.audioChunks)
               /\ SubSeq(speech.audioChunks', 1, Len(speech.audioChunks))
                      = speech.audioChunks
      ]_vars

\* a chunk that arrived during the first request went out with the second
C39_Witness ==
    /\ Len(speechLog.requests) = 2
    /\ speechLog.arrivedInFlight \cap speechLog.requests[2] # {}
    /\ ~speech.processing

====
